---- MODULE Spec2Model ----
(***************************************************************************)
(* Model of src/scraper.py: the URL content-type router of main, the      *)
(* fast/enhanced retry of scrape_url, and the image harvesting of         *)
(* find_images_in_markdown.                                               *)
(*                                                                         *)
(* Python strings are sequences of one-character strings, so that         *)
(* str.lower, str.endswith, str.startswith and the `in` substring test    *)
(* are computed character by character.                                   *)
(***************************************************************************)
EXTENDS Integers, Sequences, FiniteSets, TLC

(***************************************************************************)
(* Strings                                                                 *)
(***************************************************************************)
UpperChars == <<"A","B","C","D","E","F","G","H","I","J","K","L","M",
                "N","O","P","Q","R","S","T","U","V","W","X","Y","Z">>
LowerChars == <<"a","b","c","d","e","f","g","h","i","j","k","l","m",
                "n","o","p","q","r","s","t","u","v","w","x","y","z">>

\* str.lower() on one character
LowerChar(c) ==
  IF \E i \in 1..Len(UpperChars) : UpperChars[i] = c
  THEN LowerChars[CHOOSE i \in 1..Len(UpperChars) : UpperChars[i] = c]
  ELSE c

\* str.lower()
lower(s) == [i \in 1..Len(s) |-> LowerChar(s[i])]

\* s.startswith(p)
startswith(s, p) == Len(p) <= Len(s) /\ SubSeq(s, 1, Len(p)) = p

\* s.endswith(p)
endswith(s, p) == Len(p) <= Len(s) /\ SubSeq(s, Len(s) - Len(p) + 1, Len(s)) = p

\* p in s
contains(s, p) ==
  \E i \in 1..(Len(s) - Len(p) + 1) : SubSeq(s, i, i + Len(p) - 1) = p

\* concatenation of a sequence of strings
RECURSIVE Concat(_)
Concat(ss) == IF ss = <<>> THEN <<>> ELSE Head(ss) \o Concat(Tail(ss))

\* sequences over S of length lo..hi
SeqsBetween(S, lo, hi) == UNION {[1..n -> S] : n \in lo..hi}

(***************************************************************************)
(* Literals of the source                                                  *)
(***************************************************************************)
DotPdf  == <<".","p","d","f">>
DotPng  == <<".","p","n","g">>
DotJpg  == <<".","j","p","g">>
DotJpeg == <<".","j","p","e","g">>
DotGif  == <<".","g","i","f">>
DotWebp == <<".","w","e","b","p">>
DotSvg  == <<".","s","v","g">>
DotBmp  == <<".","b","m","p">>
DotTiff == <<".","t","i","f","f">>
Pdf     == <<"p","d","f">>
ApplicationPdf == <<"a","p","p","l","i","c","a","t","i","o","n","/","p","d","f">>
QMark   == <<"?">>
Amp     == <<"&">>

\* is_image_url: image_extensions
image_extensions == <<DotPng, DotJpg, DotJpeg, DotGif, DotWebp, DotSvg, DotBmp, DotTiff>>

(***************************************************************************)
(* The HEAD probe of is_pdf_url: the outcomes of requests.head             *)
(***************************************************************************)
TextHtml == <<"t","e","x","t","/","h","t","m","l">>
AppPdfMixed == <<"A","p","p","l","i","c","a","t","i","o","n","/","P","D","F",";","q">>
ImagePng == <<"i","m","a","g","e","/","p","n","g">>

\* a response carries the content-type header, "" when the header is absent
HeadOutcomes ==
  {[raised |-> TRUE,  content_type |-> <<>>],
   [raised |-> FALSE, content_type |-> <<>>],
   [raised |-> FALSE, content_type |-> TextHtml],
   [raised |-> FALSE, content_type |-> ImagePng],
   [raised |-> FALSE, content_type |-> ApplicationPdf],
   [raised |-> FALSE, content_type |-> AppPdfMixed]}

\* variant of the marker test without the '.pdf?' alternative
HasPdfMarker_NoQuery(url) ==
  LET url_lower == lower(url)
  IN  \/ endswith(url_lower, DotPdf)
      \/ contains(url_lower, DotPdf \o Amp)

\* is_pdf_url, first test: the .pdf marker in the URL text
HasPdfMarker(url) ==
  LET url_lower == lower(url)
  IN  \/ endswith(url_lower, DotPdf)
      \/ contains(url_lower, DotPdf \o QMark)
      \/ contains(url_lower, DotPdf \o Amp)

\* variant of is_pdf_url that takes a failed probe for a PDF
is_pdf_url_FailOpen(url, avail, head) ==
  IF HasPdfMarker(url) THEN [ret |-> TRUE, heads |-> 0]
  ELSE IF ~avail THEN [ret |-> FALSE, heads |-> 0]
  ELSE IF head.raised THEN [ret |-> TRUE, heads |-> 1]
  ELSE LET content_type == lower(head.content_type)
       IN  [ret   |-> contains(content_type, Pdf) \/ contains(content_type, ApplicationPdf),
            heads |-> 1]

\* is_pdf_url(url): ret is the returned boolean, heads the number of
\* requests.head calls it made; avail is REQUESTS_AVAILABLE and head the
\* outcome requests.head would have
is_pdf_url(url, avail, head) ==
  IF HasPdfMarker(url) THEN [ret |-> TRUE, heads |-> 0]
  ELSE IF ~avail THEN [ret |-> FALSE, heads |-> 0]
  ELSE IF head.raised THEN [ret |-> FALSE, heads |-> 1]
  ELSE LET content_type == lower(head.content_type)
       IN  [ret   |-> contains(content_type, Pdf) \/ contains(content_type, ApplicationPdf),
            heads |-> 1]

\* variant of is_image_url without the 'ext?' alternative
is_image_url_NoQuery(url) ==
  LET url_lower == lower(url)
  IN  \E k \in 1..Len(image_extensions) :
        LET ext == image_extensions[k]
        IN  \/ endswith(url_lower, ext)
            \/ contains(url_lower, ext \o Amp)

\* is_image_url(url)
is_image_url(url) ==
  LET url_lower == lower(url)
  IN  \E k \in 1..Len(image_extensions) :
        LET ext == image_extensions[k]
        IN  \/ endswith(url_lower, ext)
            \/ contains(url_lower, ext \o QMark)
            \/ contains(url_lower, ext \o Amp)

\* variant of the router that tests is_image_url before is_pdf_url
Route_ImageFirst(url, avail, head) ==
  IF is_image_url(url) THEN "IMAGE"
  ELSE IF is_pdf_url(url, avail, head).ret THEN "PDF"
  ELSE "PAGE"

\* the if / elif / else of process_all_companies
Route(url, avail, head) ==
  IF is_pdf_url(url, avail, head).ret THEN "PDF"
  ELSE IF is_image_url(url) THEN "IMAGE"
  ELSE "PAGE"

(***************************************************************************)
(* URLs: a fixed origin followed by up to MaxPieces pieces                 *)
(***************************************************************************)
MaxPieces == 3

Origin == <<"h","t","t","p","s",":","/","/","x",".","c","o","/">>
UrlPieces ==
  {<<"a">>, <<"/">>, QMark, Amp, <<"#">>,
   DotPdf, <<".","P","D","F">>, DotPng, <<".","J","p","e","g">>, DotSvg}

Urls == {Origin \o Concat(ps) : ps \in SeqsBetween(UrlPieces, 1, MaxPieces)}

(***************************************************************************)
(* Scraped text.  A text is pad filler characters (blanks) followed by    *)
(* body; the filler carries no letter, so only body is searched.          *)
(***************************************************************************)
Len500 == 500

len(text) == text.pad + Len(text.body)

Empty == [pad |-> 0, body |-> <<>>]

\* _has_pipeline_indicators: indicators
indicators ==
  << <<"p","h","a","s","e">>, <<"c","l","i","n","i","c","a","l">>,
     <<"s","t","u","d","y">>, <<"t","r","i","a","l">>,
     <<"p","r","o","g","r","a","m">>, <<"c","a","n","d","i","d","a","t","e">>,
     <<"i","n","d","i","c","a","t","i","o","n">>,
     <<"t","h","e","r","a","p","e","u","t","i","c">>,
     <<"m","e","c","h","a","n","i","s","m">>, <<"t","a","r","g","e","t">>,
     <<"p","i","p","e","l","i","n","e">> >>

MinIndicators == 3

\* _has_pipeline_indicators(markdown)
_has_pipeline_indicators(markdown) ==
  LET markdown_lower == lower(markdown.body)
      found == Cardinality({k \in 1..Len(indicators) :
                              contains(markdown_lower, indicators[k])})
  IN  found >= MinIndicators

\* the test of scrape_url that sends a fast result to the enhanced retry
LooksIncomplete(markdown) ==
  len(markdown) < Len500 \/ ~_has_pipeline_indicators(markdown)

\* bodies the vendor may return
BodyNone  == <<>>
BodyTwo   == <<"p","h","a","s","e"," ","t","r","i","a","l","s">>
BodyOne   == <<"p","i","p","e","l","i","n","e"," ","P","i","p","e","l","i","n","e",
               " ","P","I","P","E","L","I","N","E">>
BodyThree == <<"P","h","a","s","e"," ","I","I"," ","T","R","I","A","L",
               " ","s","t","u","d","y">>
BodyFour  == <<"t","h","e","r","a","p","e","u","t","i","c","s"," ",
               "T","a","r","g","e","t","s"," ","p","r","o","g","r","a","m","s",
               " ","c","a","n","d","i","d","a","t","e">>

Texts ==
  {Empty,
   [pad |-> 0, body |-> BodyThree],
   [pad |-> Len500 - 1 - Len(BodyThree), body |-> BodyThree],
   [pad |-> Len500 - Len(BodyThree), body |-> BodyThree],
   [pad |-> Len500 + 1 - Len(BodyFour), body |-> BodyFour],
   [pad |-> Len500 - Len(BodyTwo), body |-> BodyTwo],
   [pad |-> Len500 - Len(BodyOne), body |-> BodyOne],
   [pad |-> Len500, body |-> BodyNone]}

\* what app.scrape_url does: raises, or returns a response that has a
\* markdown attribute or has none
ScrapeOutcomes ==
  {[raised |-> TRUE,  has_markdown |-> FALSE, markdown |-> Empty],
   [raised |-> FALSE, has_markdown |-> FALSE, markdown |-> Empty]}
  \cup {[raised |-> FALSE, has_markdown |-> TRUE, markdown |-> t] : t \in Texts}

\* what saving the result does: _ensure_data_dir raises (mkdir), open/write
\* raises, or the file is written
PersistOutcomes == {"dir_fail", "write_fail", "ok"}

(***************************************************************************)
(* The run: main, process_all_companies and the three handlers             *)
(***************************************************************************)
MaxRecords == 2

Company == <<"A","c","m","e"," ","B","i","o">>
Company2 == <<"b","/","C">>

UrlPage   == Origin \o <<"a">>
UrlPdf    == Origin \o <<"a">> \o DotPdf
UrlPng    == Origin \o <<"a">> \o DotPng
UrlPngPdf == Origin \o <<"a">> \o DotPng \o QMark \o <<"a">> \o <<".","P","D","F">>

Records == {[company_name |-> Company, url |-> u] :
              u \in {UrlPage, UrlPdf, UrlPng, UrlPngPdf}}
           \cup {[company_name |-> Company2, url |-> UrlPage]}

VARIABLES c_pc, c_url, c_avail, c_head, c_kind, c_heads

cvars == <<c_pc, c_url, c_avail, c_head, c_kind, c_heads>>

VARIABLES company_urls, wait_for_dynamic, REQUESTS_AVAILABLE,
          m_pc, idx, successful, failed, handled,
          s_pc, s_wfd, s_requests, s_responses, s_saves, s_written, s_ret

VARIABLES i_pc, i_markdown, i_image_data

\* the files written by the handler of the current record, each with the
\* index of that record
VARIABLES files

\* process_images_from_markdown: position, the kept images, the number of
\* images handled, and the acquisition calls made so far
VARIABLES a_pc, a_image_data, a_done, a_calls, a_processed

\* screenshot_url_with_playwright: position, attempt (1 full page, 2
\* viewport only), pending exception, the browser sessions launched by the
\* call, and the returned value
VARIABLES PLAYWRIGHT_AVAILABLE, p_pc, p_attempt, p_exc, p_sessions, p_ret

ivars == <<i_pc, i_markdown, i_image_data>>
avars == <<a_pc, a_image_data, a_done, a_calls, a_processed>>
pvars == <<PLAYWRIGHT_AVAILABLE, p_pc, p_attempt, p_exc, p_sessions, p_ret>>

mvars == <<company_urls, wait_for_dynamic, REQUESTS_AVAILABLE,
           m_pc, idx, successful, failed, handled>>
svars == <<s_pc, s_wfd, s_requests, s_responses, s_saves, s_written, s_ret>>
vars  == <<cvars, mvars, svars, ivars, avars, pvars, files>>

\* no scrape_url call is active
ScrapeIdle ==
  /\ s_pc = "idle"
  /\ s_wfd = FALSE
  /\ s_requests = <<>>
  /\ s_responses = <<>>
  /\ s_saves = <<>>
  /\ s_written = <<>>
  /\ s_ret = Empty

ClassifyOff ==
  /\ c_pc = "off"
  /\ c_url = <<>>
  /\ c_avail = FALSE
  /\ c_head = [raised |-> TRUE, content_type |-> <<>>]
  /\ c_kind = "NONE"
  /\ c_heads = 0

\* main has parsed the file into company_urls; the loop has not started
MainInit ==
  /\ company_urls \in SeqsBetween(Records, 0, MaxRecords)
  /\ wait_for_dynamic \in BOOLEAN
  /\ REQUESTS_AVAILABLE \in BOOLEAN
  /\ m_pc = "loop"
  /\ idx = 0
  /\ successful = 0
  /\ failed = 0
  /\ handled = <<>>

MainOff ==
  /\ company_urls = <<>>
  /\ wait_for_dynamic = FALSE
  /\ REQUESTS_AVAILABLE = FALSE
  /\ m_pc = "off"
  /\ idx = 0
  /\ successful = 0
  /\ failed = 0
  /\ handled = <<>>

ImagesOff ==
  /\ i_pc = "off"
  /\ i_markdown = <<>>
  /\ i_image_data = <<>>

NoFiles == files = {}

AcquireOff ==
  /\ a_pc = "off"
  /\ a_image_data = <<>>
  /\ a_done = 0
  /\ a_calls = <<>>
  /\ a_processed = 0

\* no screenshot_url_with_playwright call is active
ScreenshotIdle ==
  /\ p_pc = "idle"
  /\ p_attempt = 0
  /\ p_exc = FALSE
  /\ p_sessions = <<>>
  /\ p_ret = FALSE

PlaywrightOff == PLAYWRIGHT_AVAILABLE = FALSE /\ ScreenshotIdle

Init ==
  /\ MainInit /\ ScrapeIdle /\ ClassifyOff /\ ImagesOff /\ NoFiles
  /\ AcquireOff /\ PlaywrightOff

(***************************************************************************)
(* Output files.  A path is the sequence of its components below the      *)
(* working directory.                                                      *)
(***************************************************************************)
MaxPages == 2

DataDirName == <<"d","a","t","a">>

\* str.strip()
RECURSIVE strip(_)
strip(s) ==
  IF s = <<>> THEN s
  ELSE IF Head(s) = " " THEN strip(Tail(s))
  ELSE IF s[Len(s)] = " " THEN strip(SubSeq(s, 1, Len(s) - 1))
  ELSE s

\* str.replace(old, new) for a one-character old
replace(s, old, new) == [i \in 1..Len(s) |-> IF s[i] = old THEN new ELSE s[i]]

\* _sanitize_company_name(company_name)
_sanitize_company_name(company_name) ==
  lower(replace(replace(strip(company_name), " ", "_"), "/", "_"))

\* _ensure_company_dir(company_name): DATA_DIR / safe_name
_ensure_company_dir(company_name) ==
  <<DataDirName, _sanitize_company_name(company_name)>>

\* _ensure_data_dir(): DATA_DIR
_ensure_data_dir == <<DataDirName>>

\* company_dir / f"{safe_name}{suffix}"
CompanyFile(company_name, suffix) ==
  Append(_ensure_company_dir(company_name),
         _sanitize_company_name(company_name) \o suffix)

\* scrape_url: data_dir / f"{safe_company_name}.md"
MarkdownPath(company_name) ==
  Append(_ensure_data_dir, _sanitize_company_name(company_name) \o <<".","m","d">>)

\* pdf_to_images: f"{safe_name}_page_{page_num + 1}.png"
PageSuffix(n) == <<"_","p","a","g","e","_">> \o <<IF n = 1 THEN "1" ELSE IF n = 2 THEN "2" ELSE "3">> \o DotPng

\* process_pdf: the files of one call; out is what download and conversion
\* did, pages the number of pages of the document, vision whether an
\* analysis was obtained and saved
PdfFiles(company_name, out, pages, vision) ==
  IF out = "download_fail" THEN {}
  ELSE {CompanyFile(company_name, <<"_","p","i","p","e","l","i","n","e",".","p","d","f">>)}
       \cup (IF out = "ok"
             THEN {CompanyFile(company_name, PageSuffix(n)) : n \in 1..pages}
                  \cup (IF vision THEN {CompanyFile(company_name, <<"_","p","d","f","_","a","n","a","l","y","s","i","s",".","m","d">>)} ELSE {})
             ELSE {})

\* process_image_url: is_svg
ImageIsSvg(image_url) ==
  endswith(lower(image_url), DotSvg) \/ contains(lower(image_url), DotSvg \o QMark)

\* process_image_url: the extension of the saved file
ImageExt(image_url) ==
  LET url_lower == lower(image_url)
  IN  IF ImageIsSvg(image_url) THEN DotPng
      ELSE IF contains(url_lower, DotPng) THEN DotPng
      ELSE IF contains(url_lower, DotJpg) \/ contains(url_lower, DotJpeg) THEN DotJpg
      ELSE IF contains(url_lower, DotWebp) THEN DotWebp
      ELSE IF contains(url_lower, DotGif) THEN DotGif
      ELSE DotPng

\* process_image_url: the files of one call
ImageFiles(company_name, image_url, out, vision) ==
  IF out = "ok"
  THEN {CompanyFile(company_name, <<"_","p","i","p","e","l","i","n","e">> \o ImageExt(image_url))}
       \cup (IF vision THEN {CompanyFile(company_name, <<"_","p","i","p","e","l","i","n","e","_","a","n","a","l","y","s","i","s",".","m","d">>)} ELSE {})
  ELSE {}

\* the paths are recorded for record rec
WrittenFor(rec, paths) == {[rec |-> rec, path |-> p] : p \in paths}

\* the loop takes the next record
NextRecord == m_pc = "loop" /\ idx < Len(company_urls)

\* if success: successful += 1 else: failed += 1
Count(success) ==
  /\ successful' = IF success THEN successful + 1 ELSE successful
  /\ failed' = IF success THEN failed ELSE failed + 1

\* what process_pdf does: the download fails, the conversion yields no
\* page, or both succeed
PdfOutcomes == {"download_fail", "convert_fail", "ok"}

process_pdf(out) == out = "ok"

\* is_pdf_url true: process_pdf, then the count
ProcessPdf ==
  /\ NextRecord
  /\ \E head \in HeadOutcomes, out \in PdfOutcomes, pages \in 1..MaxPages, vision \in BOOLEAN :
       /\ Route(company_urls[idx + 1].url, REQUESTS_AVAILABLE, head) = "PDF"
       /\ handled' = Append(handled, [rec |-> idx + 1, handler |-> "process_pdf"])
       /\ files' =
            WrittenFor(idx + 1, PdfFiles(company_urls[idx + 1].company_name, out, pages, vision))
       /\ Count(process_pdf(out))
  /\ idx' = idx + 1
  /\ UNCHANGED <<company_urls, wait_for_dynamic, REQUESTS_AVAILABLE, m_pc>>
  /\ UNCHANGED <<svars, cvars, ivars, avars, pvars>>

\* what process_image_url does: _ensure_company_dir raises (mkdir, not
\* guarded), the download or rendering fails, or the image is acquired
ImageOutcomes == {"dir_fail", "acquire_fail", "ok"}

\* is_image_url true: process_image_url, then the count; an exception of
\* the handler leaves the loop and asyncio.run
ProcessImage ==
  /\ NextRecord
  /\ \E head \in HeadOutcomes, out \in ImageOutcomes, vision \in BOOLEAN :
       /\ Route(company_urls[idx + 1].url, REQUESTS_AVAILABLE, head) = "IMAGE"
       /\ handled' = Append(handled, [rec |-> idx + 1, handler |-> "process_image_url"])
       /\ files' =
            WrittenFor(idx + 1, ImageFiles(company_urls[idx + 1].company_name,
                                           company_urls[idx + 1].url, out, vision))
       /\ IF out = "dir_fail"
          THEN m_pc' = "aborted" /\ UNCHANGED <<successful, failed>>
          ELSE m_pc' = m_pc /\ Count(out = "ok")
  /\ idx' = idx + 1
  /\ UNCHANGED <<company_urls, wait_for_dynamic, REQUESTS_AVAILABLE>>
  /\ UNCHANGED <<svars, cvars, ivars, avars, pvars>>

\* neither: process_company_async calls scrape_url(url, company_name,
\* wait_for_dynamic)
ProcessCompany ==
  /\ NextRecord
  /\ \E head \in HeadOutcomes :
       Route(company_urls[idx + 1].url, REQUESTS_AVAILABLE, head) = "PAGE"
  /\ handled' = Append(handled, [rec |-> idx + 1, handler |-> "process_company_async"])
  /\ idx' = idx + 1
  /\ m_pc' = "scraping"
  /\ s_pc' = "call"
  /\ s_wfd' = wait_for_dynamic
  /\ UNCHANGED <<s_requests, s_responses, s_saves, s_written, s_ret>>
  /\ files' = {}
  /\ UNCHANGED <<company_urls, wait_for_dynamic, REQUESTS_AVAILABLE, successful, failed>>
  /\ UNCHANGED <<cvars, ivars, avars, pvars>>

(***************************************************************************)
(* scrape_url.  One action is the body of one invocation: it issues one   *)
(* request and either returns or calls scrape_url again with              *)
(* wait_for_dynamic=True.  The inner invocation returns a value on every  *)
(* path, and the outer one returns that value unchanged, so the call      *)
(* chain is the sequence of invocations.                                   *)
(***************************************************************************)
MaxAttempts == 4

Mode(wfd) == IF wfd THEN "enhanced" ELSE "fast"

\* response.markdown if hasattr(response, "markdown") else ""
MarkdownOf(response) == IF response.has_markdown THEN response.markdown ELSE Empty

\* variant of the completeness test that is applied in every mode
Escalates_AnyMode(wfd, markdown) == LooksIncomplete(markdown)

\* if not wait_for_dynamic and (len(markdown) < 500 or not _has_pipeline_indicators(markdown))
Escalates(wfd, markdown) == ~wfd /\ LooksIncomplete(markdown)

\* variants of the except clause: one that retries in every mode, one that
\* never retries
RetryOnError_Always(wfd) == TRUE

RetryOnError_Never(wfd) == FALSE

\* except Exception: if not wait_for_dynamic: retry, else return ""
RetryOnError(wfd) == ~wfd

\* app.scrape_url(url, **scrape_options) is called; save is what became of
\* saving its result ("none" when the invocation does not reach the save)
IssueRequest(out, save) ==
  /\ s_pc = "call"
  /\ Len(s_requests) < MaxAttempts
  /\ s_requests' = Append(s_requests, Mode(s_wfd))
  /\ s_responses' = Append(s_responses, out)
  /\ s_saves' = Append(s_saves, save)

\* return scrape_url(url, company_name, wait_for_dynamic=True)
CallEnhanced ==
  /\ s_pc' = "call"
  /\ s_wfd' = TRUE
  /\ UNCHANGED s_ret

Return(markdown) ==
  /\ s_pc' = "returned"
  /\ s_ret' = markdown
  /\ UNCHANGED s_wfd

\* the except clause of scrape_url
ExceptClause ==
  IF RetryOnError(s_wfd) THEN CallEnhanced ELSE Return(Empty)

\* the request raises
ScrapeRaises ==
  /\ \E out \in ScrapeOutcomes :
       /\ out.raised
       /\ IssueRequest(out, "none")
  /\ ExceptClause
  /\ UNCHANGED <<s_written, files>>
  /\ UNCHANGED <<mvars, cvars, ivars, avars, pvars>>

\* the fast request returns a text judged incomplete
ScrapeIncomplete ==
  /\ \E out \in ScrapeOutcomes :
       /\ ~out.raised
       /\ Escalates(s_wfd, MarkdownOf(out))
       /\ IssueRequest(out, "none")
  /\ CallEnhanced
  /\ UNCHANGED <<s_written, files>>
  /\ UNCHANGED <<mvars, cvars, ivars, avars, pvars>>

\* the request returns a text that is kept: it is saved and returned
ScrapePersist ==
  /\ \E out \in ScrapeOutcomes, persist \in PersistOutcomes :
       /\ ~out.raised
       /\ ~Escalates(s_wfd, MarkdownOf(out))
       /\ IssueRequest(out, persist)
       /\ CASE persist = "dir_fail" ->
                 ExceptClause /\ UNCHANGED <<s_written, files>>
            [] persist = "write_fail" ->
                 Return(MarkdownOf(out)) /\ UNCHANGED <<s_written, files>>
            [] persist = "ok" ->
                 /\ s_written' = Append(s_written, MarkdownOf(out))
                 /\ files' = files \cup
                      WrittenFor(idx, {MarkdownPath(company_urls[idx].company_name)})
                 /\ Return(MarkdownOf(out))
  /\ UNCHANGED <<mvars, cvars, ivars, avars, pvars>>

\* process_company_async after scrape_url returned: `if not markdown`,
\* then the count of the loop
CompanyDone ==
  /\ m_pc = "scraping"
  /\ s_pc = "returned"
  /\ Count(len(s_ret) # 0)
  /\ m_pc' = "loop"
  /\ s_pc' = "idle"
  /\ s_wfd' = FALSE
  /\ s_requests' = <<>>
  /\ s_responses' = <<>>
  /\ s_saves' = <<>>
  /\ s_written' = <<>>
  /\ s_ret' = Empty
  /\ UNCHANGED <<company_urls, wait_for_dynamic, REQUESTS_AVAILABLE, idx, handled>>
  /\ UNCHANGED <<cvars, ivars, avars, pvars, files>>

\* the loop is over: the final summary
Summary ==
  /\ m_pc = "loop"
  /\ idx = Len(company_urls)
  /\ m_pc' = "done"
  /\ UNCHANGED <<company_urls, wait_for_dynamic, REQUESTS_AVAILABLE,
                 idx, successful, failed, handled>>
  /\ UNCHANGED <<svars, cvars, ivars, avars, pvars, files>>

Next ==
  \/ ProcessPdf
  \/ ProcessImage
  \/ ProcessCompany
  \/ ScrapeRaises
  \/ ScrapeIncomplete
  \/ ScrapePersist
  \/ CompanyDone
  \/ Summary

Spec == Init /\ [][Next]_vars

\* the router alone, over all URLs of Urls
ClassifyInit ==
  /\ c_pc = "pending"
  /\ c_url \in Urls
  /\ c_avail \in BOOLEAN
  /\ c_head \in HeadOutcomes
  /\ c_kind = "NONE"
  /\ c_heads = 0

\* one evaluation of the router's tests on c_url
Classify ==
  /\ c_pc = "pending"
  /\ c_kind' = Route(c_url, c_avail, c_head)
  /\ c_heads' = is_pdf_url(c_url, c_avail, c_head).heads
  /\ c_pc' = "classified"
  /\ UNCHANGED <<c_url, c_avail, c_head>>
  /\ UNCHANGED <<mvars, svars, ivars, avars, pvars, files>>

ClassifyNext == Classify

InitClassify ==
  /\ ClassifyInit /\ MainOff /\ ScrapeIdle /\ ImagesOff /\ NoFiles
  /\ AcquireOff /\ PlaywrightOff

SpecClassify == InitClassify /\ [][ClassifyNext]_vars

(***************************************************************************)
(* find_images_in_markdown.  A document is a sequence of image            *)
(* references separated by white space: ![alt](url), <img src="url"       *)
(* alt="alt"> and a bare url.  Each of the three re.finditer loops yields  *)
(* its matches in document order.                                          *)
(***************************************************************************)
MaxRefs == 2

\* is_likely_pipeline_image: skip_patterns
skip_patterns ==
  << <<"l","o","g","o">>, <<"i","c","o","n">>, <<"b","a","n","n","e","r">>,
     <<"h","e","a","d","e","r">>, <<"f","o","o","t","e","r">>,
     <<"f","a","v","i","c","o","n">>, <<"t","h","u","m","b">>,
     <<"a","v","a","t","a","r">>, <<"p","r","o","f","i","l","e">>,
     <<"s","o","c","i","a","l">>, <<"b","a","d","g","e">>,
     <<"b","u","t","t","o","n">>, <<"a","r","r","o","w">> >>

\* is_likely_pipeline_image: pipeline_patterns
pipeline_patterns ==
  << <<"p","i","p","e","l","i","n","e">>, <<"p","r","o","g","r","a","m">>,
     <<"c","a","n","d","i","d","a","t","e">>, <<"p","r","o","d","u","c","t">>,
     <<"d","e","v","e","l","o","p","m","e","n","t">>,
     <<"c","l","i","n","i","c","a","l">>, <<"p","h","a","s","e">>,
     <<"t","r","i","a","l">> >>

\* is_likely_pipeline_image: the size markers
size_markers ==
  << <<"2","0","0","0">>, <<"2","4","0","0">>, <<"1","9","2","0">>,
     <<"f","u","l","l">>, <<"l","a","r","g","e">> >>

Digits == {"0","1","2","3","4","5","6","7","8","9"}

\* re.search(r'\d{4}[-_]\d{2}', url)
HasDate(url) ==
  \E i \in 1..(Len(url) - 6) :
    /\ \A j \in i..(i + 3) : url[j] \in Digits
    /\ url[i + 4] \in {"-", "_"}
    /\ url[i + 5] \in Digits /\ url[i + 6] \in Digits

\* some pattern of the list occurs in s
AnyIn(patterns, s) == \E k \in 1..Len(patterns) : contains(s, patterns[k])

\* is_likely_pipeline_image(url, alt_text)
is_likely_pipeline_image(url, alt_text) ==
  LET url_lower == lower(url)
      alt_lower == lower(alt_text)
  IN  IF AnyIn(skip_patterns, url_lower) \/ AnyIn(skip_patterns, alt_lower) THEN FALSE
      ELSE IF AnyIn(pipeline_patterns, url_lower) \/ AnyIn(pipeline_patterns, alt_lower)
           THEN TRUE
      ELSE IF HasDate(url) THEN TRUE
      ELSE IF endswith(url_lower, DotSvg) THEN TRUE
      ELSE IF AnyIn(size_markers, url_lower) THEN TRUE
      ELSE TRUE

DataScheme == <<"d","a","t","a",":">>
HttpScheme == <<"h","t","t","p",":","/","/">>
HttpsScheme == <<"h","t","t","p","s",":","/","/">>

\* url_pattern: the extensions of the bare-URL pattern
url_pattern_extensions == <<DotPng, DotJpg, DotJpeg, DotGif, DotSvg, DotWebp>>

\* url_pattern: characters the class [^...] rejects (white space, angle
\* brackets, braces, bar, caret, square brackets; the class also rejects the
\* double quote, the backslash and the backquote, which no URL here contains)
UrlClassRejects == {" ", "<", ">", "{", "}", "|", "^", "[", "]"}

\* the length of the scheme url_pattern accepts at the start of s, 0 if none
SchemeLen(s) ==
  IF startswith(lower(s), HttpsScheme) THEN Len(HttpsScheme)
  ELSE IF startswith(lower(s), HttpScheme) THEN Len(HttpScheme)
  ELSE 0

\* url_pattern can end its match after the first k characters of s
UrlPatternEndsAt(s, k) ==
  /\ SchemeLen(s) > 0
  /\ \E e \in 1..Len(url_pattern_extensions) :
       LET ext == url_pattern_extensions[e]
       IN  /\ endswith(lower(SubSeq(s, 1, k)), ext)
           /\ k - Len(ext) > SchemeLen(s)
           /\ \A j \in (SchemeLen(s) + 1)..(k - Len(ext)) : s[j] \notin UrlClassRejects

\* the match of url_pattern in a url written in the document: the greedy
\* class takes the longest prefix that ends with one of the extensions
\* (<<>> when the pattern does not match)
UrlPatternMatch(s) ==
  IF \E k \in 1..Len(s) : UrlPatternEndsAt(s, k)
  THEN SubSeq(s, 1, CHOOSE k \in 1..Len(s) :
                      /\ UrlPatternEndsAt(s, k)
                      /\ \A k2 \in (k + 1)..Len(s) : ~UrlPatternEndsAt(s, k2))
  ELSE <<>>

\* any(existing_url == url for existing_url, _ in image_data)
url_already_added(image_data, url) ==
  \E k \in 1..Len(image_data) : image_data[k].url = url

\* the body of the three loops: keep or skip one candidate
Keep(image_data, url, alt_text) ==
  IF is_likely_pipeline_image(url, alt_text)
  THEN Append(image_data, [url |-> url, alt_text |-> alt_text])
  ELSE image_data

\* Pattern 1: ![alt](url); no test of url_already_added
RECURSIVE Pass1(_, _)
Pass1(refs, image_data) ==
  IF refs = <<>> THEN image_data
  ELSE LET r == Head(refs)
       IN  Pass1(Tail(refs),
                 IF r.kind = "md" /\ r.url # <<>> /\ ~startswith(r.url, DataScheme)
                 THEN Keep(image_data, r.url, r.alt)
                 ELSE image_data)

\* Pattern 2: <img ... src="url" ...>; the greedy [^>]* before the optional
\* alt group takes the rest of the tag, so group 2 never takes part in the
\* match and alt_text is ""
RECURSIVE Pass2(_, _)
Pass2(refs, image_data) ==
  IF refs = <<>> THEN image_data
  ELSE LET r == Head(refs)
       IN  Pass2(Tail(refs),
                 IF /\ r.kind = "html" /\ r.url # <<>>
                    /\ ~startswith(r.url, DataScheme)
                    /\ ~url_already_added(image_data, r.url)
                 THEN Keep(image_data, r.url, <<>>)
                 ELSE image_data)

\* Pattern 3: bare image URLs, matched anywhere in the document, also
\* inside the references of patterns 1 and 2
RECURSIVE Pass3(_, _)
Pass3(refs, image_data) ==
  IF refs = <<>> THEN image_data
  ELSE LET url == UrlPatternMatch(Head(refs).url)
       IN  Pass3(Tail(refs),
                 IF url # <<>> /\ ~url_already_added(image_data, url)
                 THEN Keep(image_data, url, <<>>)
                 ELSE image_data)

\* find_images_in_markdown(markdown)
find_images_in_markdown(refs) == Pass3(refs, Pass2(refs, Pass1(refs, <<>>)))

ImgPlain == Origin \o <<"p">> \o DotPng
ImgLogo  == Origin \o <<"L","o","g","o">> \o DotPng
ImgQuery == Origin \o <<"p">> \o DotPng \o <<"?","v","=","2">>
ImgChart == Origin \o <<"c","-","2","0","2","5","-","0","8">> \o DotSvg
ImgData  == DataScheme \o <<"x">> \o DotPng
ImgBmp   == Origin \o <<"q">> \o DotBmp

AltNone == <<>>
AltLogo == <<"L","o","g","o">>
AltChart == <<"P","i","p","e","l","i","n","e"," ","C","h","a","r","t">>

ImageUrls == {ImgPlain, ImgLogo, ImgQuery, ImgChart, ImgData, ImgBmp}
AltTexts == {AltNone, AltLogo, AltChart}

Refs ==
  {[kind |-> k, url |-> u, alt |-> a] : k \in {"md", "html"}, u \in ImageUrls, a \in AltTexts}
  \cup {[kind |-> "bare", url |-> u, alt |-> AltNone] : u \in ImageUrls}

ImagesInit ==
  /\ i_pc = "input"
  /\ i_markdown \in SeqsBetween(Refs, 0, MaxRefs)
  /\ i_image_data = <<>>

\* image_data = find_images_in_markdown(markdown)
FindImages ==
  /\ i_pc = "input"
  /\ i_image_data' = find_images_in_markdown(i_markdown)
  /\ i_pc' = "found"
  /\ UNCHANGED i_markdown
  /\ UNCHANGED <<cvars, mvars, svars, avars, pvars, files>>

ImagesNext == FindImages

InitImages ==
  /\ ImagesInit /\ MainOff /\ ScrapeIdle /\ ClassifyOff /\ NoFiles
  /\ AcquireOff /\ PlaywrightOff

SpecImages == InitImages /\ [][ImagesNext]_vars

(***************************************************************************)
(* process_images_from_markdown and screenshot_url_with_playwright.  The   *)
(* document is a sequence of ![alt](url) references.                       *)
(***************************************************************************)
MaxImages == 2

ImgSvgQuery == Origin \o <<"c">> \o DotSvg \o <<"?","v","=","2">>
ImgJpg      == Origin \o <<"p",".","J","P","G">>

AcquireUrls == {ImgQuery, ImgChart, ImgSvgQuery, ImgJpg, ImgBmp}

AcquireRefs == {[kind |-> "md", url |-> u, alt |-> AltChart] : u \in AcquireUrls}

\* process_images_from_markdown: the three tests on url_lower
is_svg(url)      == endswith(lower(url), DotSvg)
is_jpg_jpeg(url) == endswith(lower(url), DotJpg) \/ endswith(lower(url), DotJpeg)
is_png(url)      == endswith(lower(url), DotPng)

\* requests.get of download_regular_image: status 200, another status, or an
\* exception
DownloadOutcomes == {"200", "http_error", "raised"}

\* download_regular_image(url, output_path)
download_regular_image(avail, out) == avail /\ out = "200"

Result(ok) == IF ok THEN "ok" ELSE "failed"

DownloadCall(k, ok) == [image |-> k, op |-> "download", result |-> Result(ok)]
BrowserCall(k)      == [image |-> k, op |-> "browser", result |-> "pending"]

\* a browser launched by chromium.launch in the given attempt
NewSession(attempt) ==
  [attempt |-> attempt, open |-> TRUE, gotos |-> 0, loaded |-> FALSE, captures |-> 0]

\* variant in which leaving the block leaves the browsers as they are
CloseAll_Leak(sessions) == sessions

\* leaving "async with async_playwright()" stops the driver, which ends
\* every browser launched through it
CloseAll(sessions) == [i \in 1..Len(sessions) |-> [sessions[i] EXCEPT !.open = FALSE]]

AcquireInit ==
  /\ a_pc = "start"
  /\ i_pc = "off"
  /\ i_markdown \in SeqsBetween(AcquireRefs, 0, MaxImages)
  /\ i_image_data = <<>>
  /\ a_image_data = <<>>
  /\ a_done = 0
  /\ a_calls = <<>>
  /\ a_processed = 0
  /\ PLAYWRIGHT_AVAILABLE \in BOOLEAN
  /\ ScreenshotIdle
  /\ REQUESTS_AVAILABLE \in BOOLEAN
  /\ company_urls = <<>>
  /\ wait_for_dynamic = FALSE
  /\ m_pc = "off"
  /\ idx = 0
  /\ successful = 0
  /\ failed = 0
  /\ handled = <<>>

\* image_data = find_images_in_markdown(markdown); return [] when it is
\* empty; company_dir = _ensure_company_dir(company_name), which can raise
AcquireStart ==
  /\ a_pc = "start"
  /\ a_image_data' = find_images_in_markdown(i_markdown)
  /\ IF a_image_data' = <<>>
     THEN a_pc' = "returned"
     ELSE \E dir_ok \in BOOLEAN : a_pc' = IF dir_ok THEN "loop" ELSE "raised"
  /\ UNCHANGED <<a_done, a_calls, a_processed>>
  /\ UNCHANGED <<cvars, mvars, svars, ivars, pvars, files>>

\* the call screenshot_url_with_playwright(url, image_path), up to the test
\* of PLAYWRIGHT_AVAILABLE
CallScreenshot ==
  /\ a_pc' = "screenshot"
  /\ p_sessions' = <<>>
  /\ p_exc' = FALSE
  /\ p_ret' = FALSE
  /\ IF PLAYWRIGHT_AVAILABLE
     THEN p_pc' = "context" /\ p_attempt' = 1
     ELSE p_pc' = "returned" /\ p_attempt' = 0
  /\ UNCHANGED PLAYWRIGHT_AVAILABLE

\* the image at hand has been handled: success counts it as processed
ImageHandled(success) ==
  /\ a_done' = a_done + 1
  /\ a_processed' = a_processed + (IF success THEN 1 ELSE 0)

\* if is_svg: success = await screenshot_url_with_playwright(url, image_path)
AcquireSvg ==
  /\ a_pc = "loop"
  /\ a_done < Len(a_image_data)
  /\ is_svg(a_image_data[a_done + 1].url)
  /\ a_calls' = Append(a_calls, BrowserCall(a_done + 1))
  /\ CallScreenshot
  /\ UNCHANGED <<a_image_data, a_done, a_processed>>
  /\ UNCHANGED <<cvars, mvars, svars, ivars, files>>

\* elif is_png / elif is_jpg_jpeg: download_regular_image and nothing else
AcquireDirect ==
  /\ a_pc = "loop"
  /\ a_done < Len(a_image_data)
  /\ LET url == a_image_data[a_done + 1].url
     IN  ~is_svg(url) /\ (is_png(url) \/ is_jpg_jpeg(url))
  /\ \E out \in DownloadOutcomes :
       LET ok == download_regular_image(REQUESTS_AVAILABLE, out)
       IN  /\ a_calls' = Append(a_calls, DownloadCall(a_done + 1, ok))
           /\ ImageHandled(ok)
  /\ UNCHANGED <<a_pc, a_image_data>>
  /\ UNCHANGED <<cvars, mvars, svars, ivars, pvars, files>>

\* else: download_regular_image first, screenshot_url_with_playwright when
\* it returns False
AcquireOther ==
  /\ a_pc = "loop"
  /\ a_done < Len(a_image_data)
  /\ LET url == a_image_data[a_done + 1].url
     IN  ~is_svg(url) /\ ~is_png(url) /\ ~is_jpg_jpeg(url)
  /\ \E out \in DownloadOutcomes :
       LET ok == download_regular_image(REQUESTS_AVAILABLE, out)
       IN  IF ok
           THEN /\ a_calls' = Append(a_calls, DownloadCall(a_done + 1, ok))
                /\ ImageHandled(ok)
                /\ UNCHANGED <<a_pc, pvars>>
           ELSE /\ a_calls' = a_calls \o <<DownloadCall(a_done + 1, ok),
                                           BrowserCall(a_done + 1)>>
                /\ CallScreenshot
                /\ UNCHANGED <<a_done, a_processed>>
  /\ UNCHANGED a_image_data
  /\ UNCHANGED <<cvars, mvars, svars, ivars, files>>

\* screenshot_url_with_playwright has returned to the loop
ScreenshotReturn ==
  /\ a_pc = "screenshot"
  /\ p_pc = "returned"
  /\ a_calls' = [a_calls EXCEPT ![Len(a_calls)].result = Result(p_ret)]
  /\ ImageHandled(p_ret)
  /\ a_pc' = "loop"
  /\ p_pc' = "idle"
  /\ p_attempt' = 0
  /\ p_exc' = FALSE
  /\ p_sessions' = <<>>
  /\ p_ret' = FALSE
  /\ UNCHANGED <<a_image_data, PLAYWRIGHT_AVAILABLE>>
  /\ UNCHANGED <<cvars, mvars, svars, ivars, files>>

\* return processed_images
AcquireReturn ==
  /\ a_pc = "loop"
  /\ a_done = Len(a_image_data)
  /\ a_pc' = "returned"
  /\ UNCHANGED <<a_image_data, a_done, a_calls, a_processed>>
  /\ UNCHANGED <<cvars, mvars, svars, ivars, pvars, files>>

\* an exception inside the "async with" block: the block is left with it
Raise == p_exc' = TRUE /\ p_pc' = "exit"

PlaywrightFrame ==
  /\ UNCHANGED <<PLAYWRIGHT_AVAILABLE, p_ret>>
  /\ UNCHANGED <<cvars, mvars, svars, ivars, avars, files>>

LastSession == p_sessions[Len(p_sessions)]

\* async with async_playwright() as p: browser = await p.chromium.launch(...)
Launch ==
  /\ p_pc = "context"
  /\ \E ok \in BOOLEAN :
       IF ok
       THEN /\ p_sessions' = Append(p_sessions, NewSession(p_attempt))
            /\ p_pc' = "launched"
            /\ UNCHANGED p_exc
       ELSE Raise /\ UNCHANGED p_sessions
  /\ UNCHANGED p_attempt
  /\ PlaywrightFrame

\* context = await browser.new_context(...); page = await context.new_page()
NewPage ==
  /\ p_pc = "launched"
  /\ \E ok \in BOOLEAN :
       IF ok THEN p_pc' = "page" /\ UNCHANGED p_exc ELSE Raise
  /\ UNCHANGED <<p_attempt, p_sessions>>
  /\ PlaywrightFrame

\* await page.goto(url, wait_until='load') in the first attempt, whose
\* failure the bare except answers with a second goto; in the retry
\* await page.goto(url, wait_until='domcontentloaded'), whose failure leaves
\* the block
Goto ==
  /\ p_pc = "page"
  /\ \E ok \in BOOLEAN :
       /\ p_sessions' = [p_sessions EXCEPT ![Len(p_sessions)] =
                           [@ EXCEPT !.gotos = @ + 1, !.loaded = ok]]
       /\ IF ok THEN p_pc' = "loaded" /\ UNCHANGED p_exc
          ELSE IF p_attempt = 1 THEN p_pc' = "fallback" /\ UNCHANGED p_exc
          ELSE Raise
  /\ UNCHANGED p_attempt
  /\ PlaywrightFrame

\* except: await page.goto(url, wait_until='domcontentloaded', timeout=60000)
GotoFallback ==
  /\ p_pc = "fallback"
  /\ \E ok \in BOOLEAN :
       /\ p_sessions' = [p_sessions EXCEPT ![Len(p_sessions)] =
                           [@ EXCEPT !.gotos = @ + 1, !.loaded = ok]]
       /\ IF ok THEN p_pc' = "loaded" /\ UNCHANGED p_exc ELSE Raise
  /\ UNCHANGED p_attempt
  /\ PlaywrightFrame

\* await page.wait_for_timeout(...); await page.screenshot(...)
Capture ==
  /\ p_pc = "loaded"
  /\ \E ok \in BOOLEAN :
       IF ok
       THEN /\ p_sessions' = [p_sessions EXCEPT ![Len(p_sessions)].captures = @ + 1]
            /\ p_pc' = "captured"
            /\ UNCHANGED p_exc
       ELSE Raise /\ UNCHANGED p_sessions
  /\ UNCHANGED p_attempt
  /\ PlaywrightFrame

\* await browser.close()
CloseBrowser ==
  /\ p_pc = "captured"
  /\ \E ok \in BOOLEAN :
       IF ok
       THEN /\ p_sessions' = [p_sessions EXCEPT ![Len(p_sessions)].open = FALSE]
            /\ p_pc' = "exit"
            /\ UNCHANGED p_exc
       ELSE Raise /\ UNCHANGED p_sessions
  /\ UNCHANGED p_attempt
  /\ PlaywrightFrame

\* the end of the "async with" block and what follows it: with an exception
\* the except clause, which retries once and then returns False; without,
\* the print of the file size (output_path.stat() can raise) and return True
ExitContext ==
  /\ p_pc = "exit"
  /\ p_sessions' = CloseAll(p_sessions)
  /\ \E stat_ok \in BOOLEAN :
       IF p_exc \/ (p_attempt = 1 /\ ~stat_ok)
       THEN IF p_attempt = 1
            THEN p_attempt' = 2 /\ p_exc' = FALSE /\ p_pc' = "context" /\ UNCHANGED p_ret
            ELSE p_ret' = FALSE /\ p_pc' = "returned" /\ UNCHANGED <<p_attempt, p_exc>>
       ELSE p_ret' = TRUE /\ p_pc' = "returned" /\ UNCHANGED <<p_attempt, p_exc>>
  /\ UNCHANGED PLAYWRIGHT_AVAILABLE
  /\ UNCHANGED <<cvars, mvars, svars, ivars, avars, files>>

AcquireNext ==
  \/ AcquireStart
  \/ AcquireSvg
  \/ AcquireDirect
  \/ AcquireOther
  \/ ScreenshotReturn
  \/ AcquireReturn
  \/ Launch
  \/ NewPage
  \/ Goto
  \/ GotoFallback
  \/ Capture
  \/ CloseBrowser
  \/ ExitContext

InitAcquire == AcquireInit /\ ScrapeIdle /\ ClassifyOff /\ NoFiles

SpecAcquire == InitAcquire /\ [][AcquireNext]_vars

\* C8: the result of find_images_in_markdown never holds the same URL
\* twice.
C8_NoDuplicateUrl ==
  i_pc = "found"
    => \A j, k \in 1..Len(i_image_data) :
         i_image_data[j].url = i_image_data[k].url => j = k

\* a decorative keyword occurs in s
Decorative(s) == AnyIn(skip_patterns, lower(s))

\* C9: the URL of a reference whose URL or alt text holds a decorative
\* keyword is not in the result.
C9_DecorativeFilteredOut ==
  i_pc = "found"
    => \A r \in 1..Len(i_markdown) :
         (/\ ~startswith(i_markdown[r].url, DataScheme)
          /\ (Decorative(i_markdown[r].url) \/ Decorative(i_markdown[r].alt)))
           => ~url_already_added(i_image_data, i_markdown[r].url)

(***************************************************************************)
(* Claims about scrape_url, stated on the log of the current call chain    *)
(***************************************************************************)
NumRequests(mode) == Cardinality({i \in 1..Len(s_requests) : s_requests[i] = mode})

Returned == s_pc = "returned"

\* the call was made in fast mode and its fast request was answered
FastAnswered ==
  /\ Len(s_requests) >= 1
  /\ s_requests[1] = "fast"
  /\ ~s_responses[1].raised

FastText == MarkdownOf(s_responses[1])

\* the text of the fast attempt is at or above the threshold and names at
\* least three indicators
FastComplete ==
  /\ FastAnswered
  /\ len(FastText) >= Len500
  /\ _has_pipeline_indicators(FastText)

FastIncomplete ==
  /\ FastAnswered
  /\ (len(FastText) < Len500 \/ ~_has_pipeline_indicators(FastText))

\* C1: one top-level call of scrape_url issues at most two requests, at
\* most one fast and at most one enhanced, and nothing follows the enhanced
\* request: the call has returned.
C1_AtMostTwoRequests ==
  /\ Len(s_requests) <= 2
  /\ NumRequests("fast") <= 1
  /\ NumRequests("enhanced") <= 1
  /\ \A i \in 1..Len(s_requests) :
       s_requests[i] = "enhanced" => (i = Len(s_requests) /\ Returned)

C1_Witness ==
  /\ Returned
  /\ s_requests = <<"fast", "enhanced">>
  /\ ~s_responses[1].raised
  /\ s_responses[2].raised

\* C2: in fast mode, a fast text that is shorter than 500 characters or
\* names fewer than 3 indicators leads to exactly one enhanced attempt, and
\* the call returns the text of that attempt, even when it is empty.
C2_IncompleteReturnsEnhancedText ==
  (Returned /\ FastIncomplete)
    => /\ s_requests = <<"fast", "enhanced">>
       /\ ~s_responses[2].raised => s_ret = MarkdownOf(s_responses[2])

\* C3: in fast mode, a fast text of at least 500 characters naming at
\* least 3 indicators is returned as it is and no enhanced attempt is made,
\* whatever happens while the result is saved.
C3_CompleteFastNoSecondAttempt ==
  FastComplete
    => /\ s_requests = <<"fast">>
       /\ Returned => s_ret = FastText

\* C4: if the fast attempt raises, exactly one enhanced attempt is made;
\* and when the enhanced attempt raises or returns empty text, the call has
\* returned empty text and no further attempt follows.
C4_FailuresEndInEmptyText ==
  /\ (Len(s_requests) >= 1 /\ s_requests[1] = "fast" /\ s_responses[1].raised)
       => \/ s_requests = <<"fast">> /\ s_pc = "call" /\ s_wfd
          \/ s_requests = <<"fast", "enhanced">> /\ Returned
  /\ \A i \in 1..Len(s_requests) :
       (/\ s_requests[i] = "enhanced"
        /\ (s_responses[i].raised \/ len(MarkdownOf(s_responses[i])) = 0))
         => (i = Len(s_requests) /\ Returned /\ len(s_ret) = 0)

C4_Witness ==
  /\ Returned
  /\ s_requests = <<"fast", "enhanced">>
  /\ s_responses[1].raised
  /\ ~s_responses[2].raised
  /\ len(MarkdownOf(s_responses[2])) = 0
  /\ len(s_ret) = 0

\* C10: the markdown file is written only with the content of a successful
\* attempt, and a call that returns empty text (the URL is counted as
\* failed) has written no file.
C10_NoFileOnFailure ==
  /\ \A k \in 1..Len(s_written) : len(s_written[k]) > 0
  /\ (Returned /\ len(s_ret) = 0) => s_written = <<>>

(***************************************************************************)
(* Claims about the dispatch of the main loop                              *)
(***************************************************************************)
HandlersOf(i) == {k \in 1..Len(handled) : handled[k].rec = i}

\* C7: every record the loop has reached got exactly one handler and no
\* other record got any; a record whose URL ends in .pdf got process_pdf,
\* also when the URL names an image extension.
C7_OneHandlerPdfFirst ==
  /\ \A i \in 1..Len(company_urls) :
       Cardinality(HandlersOf(i)) = IF i <= idx THEN 1 ELSE 0
  /\ \A k \in 1..Len(handled) :
       /\ handled[k].handler \in {"process_pdf", "process_image_url", "process_company_async"}
       /\ endswith(lower(company_urls[handled[k].rec].url), DotPdf)
            => handled[k].handler = "process_pdf"

C7_Witness ==
  /\ idx >= 1
  /\ company_urls[1].url = UrlPngPdf
  /\ contains(lower(company_urls[1].url), DotPng)
  /\ handled[1] = [rec |-> 1, handler |-> "process_pdf"]

\* C12: every file written for a record lies in the directory of the
\* record's company, data/<sanitized company name>/.
C12_FilesInCompanyDir ==
  \A f \in files :
    /\ Len(f.path) = 3
    /\ f.path[1] = DataDirName
    /\ f.path[2] = _sanitize_company_name(company_urls[f.rec].company_name)

\* C15: in a run started with --wait-for-dynamic every scrape request is
\* an enhanced one, the completeness test sends no text to a retry, and a
\* URL gets exactly one attempt.
C15_ForcedEnhancedOneAttempt ==
  wait_for_dynamic
    => /\ \A i \in 1..Len(s_requests) : s_requests[i] = "enhanced"
       /\ Len(s_requests) <= 1
       /\ s_pc = "call" => s_requests = <<>>
       /\ Returned => Len(s_requests) = 1

C15_Witness ==
  /\ wait_for_dynamic
  /\ Returned
  /\ s_requests = <<"enhanced">>
  /\ ~s_responses[1].raised
  /\ LooksIncomplete(MarkdownOf(s_responses[1]))
  /\ len(MarkdownOf(s_responses[1])) > 0
  /\ s_ret = MarkdownOf(s_responses[1])

\* C17: one call of scrape_url writes the markdown file at most once, and
\* the text written is the text returned; a fast attempt that goes on to
\* the enhanced attempt writes nothing; a save that fails (the directory
\* cannot be made, or the file cannot be opened or written) starts no
\* other attempt and leaves the returned text as the attempt gave it.
C17_OneWriteByReturningAttempt ==
  /\ Len(s_written) <= 1
  /\ Len(s_written) = 1
       => (Returned /\ s_ret = s_written[1] /\ s_saves[Len(s_saves)] = "ok")
  /\ Len(s_requests) = 2 => s_saves[1] # "ok"
  /\ \A i \in 1..Len(s_saves) :
       s_saves[i] \in {"dir_fail", "write_fail"}
         => /\ i = Len(s_requests)
            /\ Returned => s_ret = MarkdownOf(s_responses[i])

\* the part of C17 about writes alone: at most one write, by the attempt
\* whose text is returned, and none by an attempt that escalates
C17_Writes ==
  /\ Len(s_written) <= 1
  /\ Len(s_written) = 1
       => (Returned /\ s_ret = s_written[1] /\ s_saves[Len(s_saves)] = "ok")
  /\ Len(s_requests) = 2 => s_saves[1] # "ok"
  /\ \A i \in 1..Len(s_saves) :
       s_saves[i] = "write_fail"
         => /\ i = Len(s_requests)
            /\ Returned => s_ret = MarkdownOf(s_responses[i])

\* the records whose handler has returned and been counted
Counted == IF m_pc = "scraping" THEN idx - 1 ELSE idx

\* C11: whatever fails for a URL, the run never aborts: the records are
\* handled in input order, each is counted once as successful or failed,
\* and at the end successful + failed is the number of parsed records.
C11_RunNeverAborts ==
  /\ m_pc # "aborted"
  /\ \A k \in 1..Len(handled) : handled[k].rec = k
  /\ m_pc \in {"loop", "scraping", "done"} => successful + failed = Counted
  /\ m_pc = "done" => successful + failed = Len(company_urls)

(***************************************************************************)
(* URL structure, used to state the classification claims                  *)
(***************************************************************************)
\* the part of s before the first occurrence of character ch (s if none)
BeforeFirst(s, ch) ==
  IF \E i \in 1..Len(s) : s[i] = ch
  THEN SubSeq(s, 1, (CHOOSE i \in 1..Len(s) :
                       s[i] = ch /\ \A j \in 1..(i - 1) : s[j] # ch) - 1)
  ELSE s

\* the part of s after the last occurrence of character ch (s if none)
AfterLast(s, ch) ==
  IF \E i \in 1..Len(s) : s[i] = ch
  THEN SubSeq(s, (CHOOSE i \in 1..Len(s) :
                    s[i] = ch /\ \A j \in (i + 1)..Len(s) : s[j] # ch) + 1, Len(s))
  ELSE s

HasFragment(url) == \E i \in 1..Len(url) : url[i] = "#"

\* the URL without fragment and query string
UrlPath(url) == BeforeFirst(BeforeFirst(url, "#"), "?")

FinalPathSegment(url) == AfterLast(UrlPath(url), "/")

\* the URL text ends in .pdf, or .pdf is directly followed by a query string
EndsInPdfOptQuery(url) ==
  \/ endswith(lower(url), DotPdf)
  \/ endswith(lower(BeforeFirst(url, "?")), DotPdf)

\* the URL text carries one of the three .pdf markers
PdfMarkerInText(url) ==
  \/ endswith(lower(url), DotPdf)
  \/ \E i \in 1..(Len(url) - 4) :
       /\ lower(SubSeq(url, i, i + 3)) = DotPdf
       /\ url[i + 4] \in {"?", "&"}

\* the final path segment ends with a known image extension
ImageSegment(url) ==
  \E k \in 1..Len(image_extensions) :
    endswith(lower(FinalPathSegment(url)), image_extensions[k])

\* the HEAD probe was answered with a content type naming pdf
HeadSaysPdf == c_avail /\ ~c_head.raised /\ contains(lower(c_head.content_type), Pdf)

\* C5: a URL ending in .pdf (any letter case), optionally followed by a
\* query string, is classified PDF and no HEAD request is issued for it.
C5_PdfByExtensionNoHead ==
  (c_pc = "classified" /\ EndsInPdfOptQuery(c_url))
    => (c_kind = "PDF" /\ c_heads = 0)

C5_Witness ==
  /\ c_pc = "classified"
  /\ EndsInPdfOptQuery(c_url)
  /\ ~endswith(c_url, DotPdf)
  /\ contains(c_url, QMark)
  /\ c_avail /\ ~c_head.raised
  /\ c_kind = "PDF" /\ c_heads = 0

C16_ProbeFailureMeansNotPdf ==
  (/\ c_pc = "classified"
   /\ ~PdfMarkerInText(c_url)
   /\ (~c_avail \/ c_head.raised))
    => /\ c_kind \in {"IMAGE", "PAGE"}
       /\ c_heads = IF c_avail THEN 1 ELSE 0

C16_Witness ==
  /\ c_pc = "classified"
  /\ ~PdfMarkerInText(c_url)
  /\ c_avail /\ c_head.raised
  /\ c_heads = 1
  /\ c_kind = "PAGE"

\* the acquisition calls made for the k-th kept image, in order
CallsFor(k) == SelectSeq(a_calls, LAMBDA c : c.image = k)

\* the calls made for image k follow the strategy of its kind: browser
\* only, download only, or download first and browser iff it failed
FollowsStrategy(k, svg, direct) ==
  LET calls == CallsFor(k)
  IN  IF svg
      THEN /\ \A i \in 1..Len(calls) : calls[i].op = "browser"
           /\ k <= a_done => Len(calls) = 1
      ELSE IF direct
      THEN /\ \A i \in 1..Len(calls) : calls[i].op = "download"
           /\ k <= a_done => Len(calls) = 1
      ELSE /\ Len(calls) <= 2
           /\ Len(calls) >= 1 => calls[1].op = "download"
           /\ Len(calls) = 2 => calls[2].op = "browser" /\ calls[1].result = "failed"
           /\ k <= a_done => (Len(calls) >= 1 /\ (Len(calls) = 2 <=> calls[1].result = "failed"))

\* the extension of the file a URL names: that of its path, without query
\* string and fragment
HasExtension(url, ext) == endswith(lower(UrlPath(url)), ext)

\* C14: each kept image is acquired by the strategy of its extension: .svg
\* by the browser only, .png, .jpg and .jpeg by download only, also when
\* the download fails, any other extension by download first and by the
\* browser if and only if the download failed.
C14_StrategyByExtension ==
  \A k \in 1..Len(a_image_data) :
    LET url == a_image_data[k].url
    IN  FollowsStrategy(k, HasExtension(url, DotSvg),
                        HasExtension(url, DotPng) \/ HasExtension(url, DotJpg)
                          \/ HasExtension(url, DotJpeg))

\* the strategy is the one of the last characters of the whole URL, query
\* string included
C14_StrategyBySuffix ==
  \A k \in 1..Len(a_image_data) :
    LET url == a_image_data[k].url
    IN  FollowsStrategy(k, is_svg(url), is_png(url) \/ is_jpg_jpeg(url))

\* C13: a browser session of screenshot_url_with_playwright serves one
\* navigation and capture (one page load, tried a second time in the same
\* session only when the first try of the full-page attempt failed, and at
\* most one capture, taken after the load); no two sessions are open
\* together, and none is open when the function returns, whatever the
\* outcome of the full-page attempt and of the viewport-only retry; a call
\* that returns True made exactly one load and one capture in the session
\* of the attempt that succeeded.
C13_SessionsScopedAndClosed ==
  /\ Len(p_sessions) <= 2
  /\ \A i \in 1..Len(p_sessions) :
       LET session == p_sessions[i]
       IN  /\ session.attempt \in {1, 2}
           /\ \A j \in 1..(i - 1) : p_sessions[j].attempt < session.attempt
           /\ session.captures <= 1
           /\ session.captures = 1 => session.loaded
           /\ session.gotos <= (IF session.attempt = 1 THEN 2 ELSE 1)
           /\ session.loaded => session.gotos >= 1
           /\ i < Len(p_sessions) => ~session.open
  /\ p_pc \in {"returned", "idle", "context"}
       => \A i \in 1..Len(p_sessions) : ~p_sessions[i].open
  /\ (p_pc = "returned" /\ p_ret)
       => /\ p_sessions # <<>>
          /\ LastSession.loaded
          /\ LastSession.captures = 1

C13_Witness ==
  /\ p_pc = "returned"
  /\ p_ret
  /\ Len(p_sessions) = 2
  /\ p_sessions[1].gotos = 2
  /\ p_sessions[1].loaded
  /\ p_sessions[1].captures = 0
  /\ ~p_sessions[1].open
  /\ p_sessions[2].captures = 1
  /\ ~p_sessions[2].open

\* a call that failed in both attempts has returned False with both
\* sessions closed
C13_WitnessFailure ==
  /\ p_pc = "returned"
  /\ ~p_ret
  /\ Len(p_sessions) = 2
  /\ p_sessions[2].loaded
  /\ p_sessions[2].captures = 0
  /\ ~p_sessions[2].open
====
